---- MODULE Spec2Model ----
(***************************************************************************)
(* Model of glmax's formula helpers (src/glmax/utils/formulas.py) and of   *)
(* the way Regression.model routes a request through them                  *)
(* (src/glmax/class_regression.py): a mapping is composed into a formula   *)
(* string by create_formula and then parsed by parse_formula, a string is  *)
(* parsed directly, and the result is stored in Regression._model (the    *)
(* variable _model); raised is the exception the last call let escape.     *)
(*                                                                         *)
(* A Python str is a sequence of one-character strings; a Python value of  *)
(* which the type matters is a record [type, val].  The list that          *)
(* parse_formula returns under "ixs" is built by iterating a Python set of *)
(* frozensets, so neither the order of the terms nor the order inside a    *)
(* term is fixed by the code: it is modelled as a set of sets of tokens.   *)
(***************************************************************************)
EXTENDS Integers, Sequences, FiniteSets, TLC

VARIABLES pc, request, form, mod, warnings, _model, raised

vars == <<pc, request, form, mod, warnings, _model, raised>>

(* ------------------------------ bounds --------------------------------- *)
MaxPreds == 3
MaxIxs == 2
MaxRawLen == 3

(* --------------------------- Python values ----------------------------- *)
PyNone == [type |-> "NoneType"]
PyStr(s) == [type |-> "str", val |-> s]
PyList(l) == [type |-> "list", val |-> l]
PyTuple(l) == [type |-> "tuple", val |-> l]
PyInt(n) == [type |-> "int", val |-> n]
PyDict(d) == [type |-> "dict", val |-> d]

Return(v) == [kind |-> "return", val |-> v]
Raise(e) == [kind |-> "raise", exc |-> e]
NotCalled == [kind |-> "not called"]

\* the exception a result lets escape to the caller
Escapes(r) == IF r.kind = "raise" THEN r.exc ELSE "none"

(* ------------------------- str primitives ------------------------------ *)
\* c in s
Contains(s, c) == \E k \in DOMAIN s : s[k] = c

\* index of the first occurrence of c in s (c occurs in s)
Find(s, c) == CHOOSE k \in DOMAIN s : s[k] = c /\ \A j \in 1..(k - 1) : s[j] # c

\* s.split(c) for a one-character separator: "".split(c) is [""]
RECURSIVE split(_, _)
split(s, c) ==
    IF ~Contains(s, c) THEN <<s>>
    ELSE <<SubSeq(s, 1, Find(s, c) - 1)>> \o split(SubSeq(s, Find(s, c) + 1, Len(s)), c)

IsSpace(c) == c = " "

\* s.strip()
strip(s) ==
    IF \A k \in DOMAIN s : IsSpace(s[k]) THEN <<>>
    ELSE LET lo == CHOOSE k \in DOMAIN s : ~IsSpace(s[k]) /\ \A j \in 1..(k - 1) : IsSpace(s[j])
             hi == CHOOSE k \in DOMAIN s : ~IsSpace(s[k]) /\ \A j \in (k + 1)..Len(s) : IsSpace(s[j])
         IN SubSeq(s, lo, hi)

\* sep.join(l)
RECURSIVE join(_, _)
join(sep, l) ==
    IF l = <<>> THEN <<>>
    ELSE IF Len(l) = 1 THEN l[1]
    ELSE l[1] \o sep \o join(sep, Tail(l))

\* [f(x) for x in l]
StripAll(l) == [k \in DOMAIN l |-> strip(l[k])]

\* functools.reduce(lambda i, j: i + j, l) for a non-empty list of lists
RECURSIVE Concat(_)
Concat(l) == IF Len(l) = 1 THEN l[1] ELSE l[1] \o Concat(Tail(l))

\* code points of the characters of the model's alphabet
CodePoint(c) ==
    CASE c = " " -> 32 [] c = "*" -> 42 [] c = "+" -> 43 [] c = ":" -> 58
      [] c = "a" -> 97 [] c = "b" -> 98 [] c = "c" -> 99 [] c = "d" -> 100
      [] c = "y" -> 121 [] c = "~" -> 126

\* s < t for Python str (lexicographic by code point)
RECURSIVE StrLess(_, _)
StrLess(s, t) ==
    IF t = <<>> THEN FALSE
    ELSE IF s = <<>> THEN TRUE
    ELSE IF s[1] # t[1] THEN CodePoint(s[1]) < CodePoint(t[1])
    ELSE StrLess(Tail(s), Tail(t))

\* np.unique over the elements S of a list: its unique elements, sorted
RECURSIVE SortedSeq(_)
SortedSeq(S) ==
    IF S = {} THEN <<>>
    ELSE LET m == CHOOSE x \in S : \A z \in S \ {x} : StrLess(x, z)
         IN <<m>> \o SortedSeq(S \ {m})

Range(l) == {l[k] : k \in DOMAIN l}

(* --------------------------- create_formula ---------------------------- *)
SepPlus == <<" ", "+", " ">>
SepTilde == <<" ", "~", " ">>

\* the type check widened to every sequence type
IsListOrStr_AnySequence(v) == v.type \in {"list", "tuple", "str"}

\* line 36: isinstance(interactions, (list, str))
IsListOrStr(v) == v.type \in {"list", "str"}

\* AsList without the isinstance(..., str) wrapping: join() then iterates the
\* characters of the str
AsList_NoWrap(v) ==
    IF v.type = "str" THEN [k \in DOMAIN v.val |-> <<v.val[k]>>] ELSE v.val

\* lines 32-33 and 38-39: a single str counts as a one-element list
AsList(v) == IF v.type = "str" THEN <<v.val>> ELSE v.val

create_formula(outcome, predictors, interactions) ==
    LET form0 == outcome \o SepTilde \o join(SepPlus, AsList(predictors))
    IN IF interactions.type # "NoneType"
       THEN IF ~IsListOrStr(interactions)
            THEN Raise("TypeError")
            ELSE Return(form0 \o SepPlus \o join(SepPlus, AsList(interactions)))
       ELSE Return(form0)

(* ---------------------------- parse_formula ---------------------------- *)
\* the separator check weakened to "at least one separator"
BadSeparatorCount_AtLeastOne(parts) == Len(parts) < 2

\* line 56: len(form) != 2
BadSeparatorCount(parts) == Len(parts) # 2

\* lines 60 and 64: ":" in p or "*" in p
IsInteraction(p) == Contains(p, ":") \/ Contains(p, "*")

\* line 60: the plain terms, stripped, in order (no deduplication)
PlainPredictors(predictors) ==
    StripAll(SelectSeq(predictors, LAMBDA p : ~IsInteraction(p)))

\* lines 65-66: split on the term's delimiter (":" if present, else "*"),
\* strip the pieces and join them again
Delimiter(p) == IF Contains(p, ":") THEN ":" ELSE "*"

Normalize(p) == join(<<Delimiter(p)>>, StripAll(split(p, Delimiter(p))))

\* all() written for any()
AnyMixed_All(ixs) == \A k \in DOMAIN ixs : Contains(ixs[k], ":") /\ Contains(ixs[k], "*")

\* line 67: any(":" in p and "*" in p for p in ixs)
AnyMixed(ixs) == \E k \in DOMAIN ixs : Contains(ixs[k], ":") /\ Contains(ixs[k], "*")

\* neighbouring pairs only, zip(x, x[1:]), for combinations(x, 2)
combinations2_Adjacent(x) == [k \in 1..(Len(x) - 1) |-> <<x[k], x[k + 1]>>]

\* line 75: [list(p) for p in combinations(x, 2)]
RECURSIVE combinations2(_)
combinations2(x) ==
    IF Len(x) < 2 THEN <<>>
    ELSE [k \in 1..(Len(x) - 1) |-> <<x[1], x[k + 1]>>] \o combinations2(Tail(x))

\* lines 78-79: {frozenset(p) for p in ixs_lists}
UniquePairs(ixs_lists) == {Range(ixs_lists[k]) : k \in DOMAIN ixs_lists}

\* every interaction variable appended, whether listed already or not
MissingPreds_NoFilter(ix_preds, preds) == ix_preds

\* line 83: [p for p in ix_preds if p not in preds]
MissingPreds(ix_preds, preds) == SelectSeq(ix_preds, LAMBDA p : p \notin Range(preds))

\* lines 53-94; the result carries the warnings the call emitted
parse_formula(formula) ==
    IF formula.type # "str" THEN [ret |-> Raise("TypeError"), warned |-> <<>>]
    ELSE
    LET parts == split(formula.val, "~")
    IN IF BadSeparatorCount(parts) THEN [ret |-> Raise("ValueError"), warned |-> <<>>]
       ELSE
       LET outcome == strip(parts[1])
           predictors == split(strip(parts[2]), "+")
           preds == PlainPredictors(predictors)
       IN IF Contains(formula.val, "*") \/ Contains(formula.val, ":")
          THEN
            LET ixs0 == SelectSeq(predictors, IsInteraction)
                ixs == [k \in DOMAIN ixs0 |-> Normalize(ixs0[k])]
            IN IF AnyMixed(ixs) THEN [ret |-> Raise("ValueError"), warned |-> <<>>]
               ELSE
               LET stars == SelectSeq(ixs, LAMBDA p : Contains(p, "*"))
                   cols == SelectSeq(ixs, LAMBDA p : Contains(p, ":"))
                   ix_star == [k \in DOMAIN stars |-> StripAll(split(stars[k], "*"))]
                   ix_col == [k \in DOMAIN cols |-> StripAll(split(cols[k], ":"))]
               IN \* line 74: reduce() of an empty list without an initial value
                  IF ix_star = <<>> THEN [ret |-> Raise("TypeError"), warned |-> <<>>]
                  ELSE
                  LET ix_star_reform ==
                          Concat([k \in DOMAIN ix_star |-> combinations2(ix_star[k])])
                      ixs_lists == ix_col \o ix_star_reform
                      unique_pairs == UniquePairs(ixs_lists)
                      \* line 82: np.unique of the concatenated terms
                      ix_preds == SortedSeq(UNION unique_pairs)
                      missing_preds == MissingPreds(ix_preds, preds)
                  IN [ret |-> Return([y |-> outcome,
                                      x |-> preds \o missing_preds,
                                      ixs |-> PyList(unique_pairs)]),
                      warned |-> IF Len(missing_preds) > 0
                                 THEN <<missing_preds>> ELSE <<>>]
          ELSE [ret |-> Return([y |-> outcome, x |-> preds, ixs |-> PyNone]),
                warned |-> <<>>]

(* -------------------------- create_formula_sem ------------------------- *)
\* a composer that serves a mapping of one outcome and its predictors
create_formula_sem_Composes(model) ==
    IF model.type = "dict" /\ {"y", "x"} \subseteq DOMAIN model.val
    THEN create_formula(model.val.y, model.val.x, PyNone)
    ELSE Raise("NotImplementedError")

\* lines 97-108: the body is a single raise
create_formula_sem(model) == Raise("NotImplementedError")

(* --------------------------- Regression.model -------------------------- *)
\* Regression._model before __init__ has assigned it
Unset == [kind |-> "unset"]

\* the stored model dropped when the assignment fails
Stored_ClearedOnFailure(prev, formr, modr) ==
    IF modr.kind = "return"
    THEN [kind |-> "model", x |-> modr.val.x, y |-> modr.val.y,
          ixs |-> modr.val.ixs, formula |-> formr.val]
    ELSE Unset

\* lines 88-89, reached only when nothing raised before
Stored(prev, formr, modr) ==
    IF modr.kind = "return"
    THEN [kind |-> "model", x |-> modr.val.x, y |-> modr.val.y,
          ixs |-> modr.val.ixs, formula |-> formr.val]
    ELSE prev

\* lines 82-87 of the setter for the assigned value: the formula, the parser's
\* result, the warnings and the exception that escapes
SetterOutcome(value) ==
    IF value.type \notin {"dict", "str"}
    THEN [form |-> NotCalled, mod |-> NotCalled, warned |-> <<>>, raised |-> "TypeError"]
    ELSE IF value.type = "dict" /\ ~({"y", "x"} \subseteq DOMAIN value.val)
    THEN [form |-> NotCalled, mod |-> NotCalled, warned |-> <<>>, raised |-> "KeyError"]
    ELSE
    LET f == IF value.type = "str" THEN Return(value.val)
             ELSE create_formula(value.val.y, value.val.x,
                                 IF "ixs" \in DOMAIN value.val
                                 THEN value.val.ixs ELSE PyNone)
    IN IF f.kind = "raise"
       THEN [form |-> f, mod |-> NotCalled, warned |-> <<>>, raised |-> f.exc]
       ELSE LET r == parse_formula(PyStr(f.val))
            IN [form |-> f, mod |-> r.ret, warned |-> r.warned,
                raised |-> Escapes(r.ret)]

(* ------------------------------ inputs --------------------------------- *)
Tokens == {<<"a">>, <<"b">>, <<"c">>}
Outcomes == {<<"y">>, <<"a">>}

\* raw interaction-term strings handed to create_formula
IxStrings ==
    { <<"a", ":", "b">>, <<"b", ":", "a">>, <<"a", "*", "b", "*", "c">>,
      <<"a", ":", "b", "*", "c">>, <<"a", ":", "d">>, <<"d", "*", "c">> }

SeqsUpTo(S, n) == UNION {[1..k -> S] : k \in 0..n}

PredictorArgs ==
    {PyList(l) : l \in SeqsUpTo(Tokens, MaxPreds)} \cup {PyStr(t) : t \in Tokens}

InteractionArgs ==
    {PyNone} \cup {PyStr(s) : s \in IxStrings}
      \cup {PyList(l) : l \in SeqsUpTo(IxStrings, MaxIxs)}
      \cup {PyTuple(l) : l \in SeqsUpTo(IxStrings, 1)}
      \cup {PyInt(0)}

RawChars == {"y", "a", " ", "~", "+", ":", "*"}

\* formulas the specification names, longer than MaxRawLen, and formulas with
\* an interaction term that repeats a variable
Examples ==
    { <<"y", " ", "~", " ", "a", " ", "~", " ", "b">>,
      <<"y", " ", "+", " ", "a">>,
      <<"y", " ", "~", " ", "a", " ", "+", " ", "a", "*", "a">>,
      <<"y", " ", "~", " ", "a", " ", "+", " ", "b", " ", "+", " ",
        "a", "*", "b", " ", "+", " ", "a", ":", "a">> }

RawFormulas == SeqsUpTo(RawChars, MaxRawLen) \cup Examples

\* arguments of create_formula_sem: mappings of an outcome and its
\* predictors, and values of other types
SemModels ==
    {PyDict([y |-> o, x |-> p]) : o \in Outcomes, p \in PredictorArgs}
      \cup {PyDict([y |-> o]) : o \in Outcomes}
      \cup {PyStr(f) : f \in Examples}
      \cup {PyNone, PyInt(0), PyList(<<>>)}

Requests ==
    {[route |-> "dict", y |-> o, x |-> p, ixs |-> i] :
        o \in Outcomes, p \in PredictorArgs, i \in InteractionArgs}
      \cup {[route |-> "str", formula |-> PyStr(f)] : f \in RawFormulas}
      \cup {[route |-> "sem", model |-> m] : m \in SemModels}

(* ------------------------------ actions -------------------------------- *)
Init ==
    /\ request \in Requests
    /\ pc = CASE request.route = "dict" -> "create_formula"
               [] request.route = "str" -> "parse_formula"
               [] request.route = "sem" -> "create_formula_sem"
    /\ form = IF request.route = "str" THEN Return(request.formula.val) ELSE NotCalled
    /\ mod = NotCalled
    /\ warnings = <<>>
    /\ _model = Unset
    /\ raised = "none"

\* class_regression.py lines 84-86: compose the formula of a mapping
CreateFormula ==
    /\ pc = "create_formula"
    /\ form' = create_formula(request.y, request.x, request.ixs)
    /\ pc' = IF form'.kind = "return" THEN "parse_formula" ELSE "done"
    /\ raised' = Escapes(form')
    /\ UNCHANGED <<request, mod, warnings, _model>>

\* class_regression.py lines 87-89: parse the formula string and, when the
\* parser returned, store the model
ParseFormula ==
    /\ pc = "parse_formula"
    /\ LET r == parse_formula(PyStr(form.val))
       IN /\ mod' = r.ret
          /\ warnings' = r.warned
          /\ raised' = Escapes(r.ret)
          /\ _model' = Stored(_model, form, r.ret)
    /\ pc' = "done"
    /\ UNCHANGED <<request, form>>

\* formulas.py lines 97-108: a call of the structural-equation composer
CreateFormulaSem ==
    /\ pc = "create_formula_sem"
    /\ form' = create_formula_sem(request.model)
    /\ pc' = "done"
    /\ raised' = Escapes(form')
    /\ UNCHANGED <<request, mod, warnings, _model>>

Next == CreateFormula \/ ParseFormula \/ CreateFormulaSem

Spec == Init /\ [][Next]_vars

(* ------------------ a Regression object and its model ------------------ *)
\* values assigned to Regression.model
ModelValues ==
    {PyDict([y |-> o, x |-> p, ixs |-> i]) :
        o \in Outcomes,
        p \in {PyStr(<<"a">>), PyList(<< <<"a">>, <<"b">> >>)},
        i \in {PyNone, PyStr(<<"d", "*", "c">>), PyList(<< <<"a", ":", "b">> >>),
               PyTuple(<< <<"d", "*", "c">> >>), PyStr(<<"a", ":", "b", "*", "c">>)}}
      \cup {PyDict([y |-> o, x |-> PyList(<< <<"a">>, <<"b">> >>)]) : o \in Outcomes}
      \cup {PyDict([y |-> <<"y">>])}
      \cup {PyStr(f) : f \in Examples}
      \cup {PyStr(<<"y", " ", "~", " ", "a">>),
            PyStr(<<"y", "~", "a", "+", "a", "*", "b">>),
            PyStr(<<"y", "~", "a", "+", "a", ":", "b">>)}
      \cup {PyNone, PyInt(0), PyList(<<>>)}

\* the state after __init__ (lines 58-62): the constructor's assignment has
\* succeeded, otherwise there is no object
InitAssign ==
    /\ request \in {[route |-> "__init__", value |-> v] :
                       v \in {w \in ModelValues : SetterOutcome(w).raised = "none"}}
    /\ form = SetterOutcome(request.value).form
    /\ mod = SetterOutcome(request.value).mod
    /\ warnings = SetterOutcome(request.value).warned
    /\ raised = "none"
    /\ _model = Stored(Unset, form, mod)
    /\ pc = "done"

\* lines 82-89: the whole setter
Assign(route, value) ==
    LET o == SetterOutcome(value)
    IN /\ request' = [route |-> route, value |-> value]
       /\ form' = o.form
       /\ mod' = o.mod
       /\ warnings' = o.warned
       /\ raised' = o.raised
       /\ _model' = Stored(_model, o.form, o.mod)
       /\ pc' = "done"

\* regression.model = value
SetModel == \E value \in ModelValues : Assign("model", value)

\* regression.run(formula=...), lines 180-181; the fit that follows reads
\* self.model and never assigns it
Run ==
    \/ \E formula \in ModelValues \ {PyNone} : Assign("run", formula)
    \/ /\ request' = [route |-> "run", value |-> PyNone]
       /\ form' = NotCalled
       /\ mod' = NotCalled
       /\ warnings' = <<>>
       /\ raised' = "none"
       /\ pc' = "done"
       /\ UNCHANGED _model

NextAssign == SetModel \/ Run

SpecAssign == InitAssign /\ [][NextAssign]_vars

(* ------------------------ what the claims speak of --------------------- *)
TildeCount(s) == Cardinality({k \in DOMAIN s : s[k] = "~"})

\* the "+"-separated terms right of the single "~" of formula f
RhsTerms(f) == split(SubSeq(f, Find(f, "~") + 1, Len(f)), "+")

IsMixedTerm(t) == Contains(t, ":") /\ Contains(t, "*")

TwoSubsets(S) == {T \in SUBSET S : Cardinality(T) = 2}

NoDuplicates(l) == \A i \in DOMAIN l : \A j \in DOMAIN l : i # j => l[i] # l[j]

\* l with every element kept at its first occurrence only
RECURSIVE FirstOccurrences(_)
FirstOccurrences(l) ==
    IF l = <<>> THEN <<>>
    ELSE LET front == FirstOccurrences(SubSeq(l, 1, Len(l) - 1))
         IN IF l[Len(l)] \in Range(front) THEN front ELSE Append(front, l[Len(l)])

\* the variables of an interaction string built of tokens
IxVars(s) == Range(StripAll(split(s, Delimiter(s))))

Parsed == pc = "done" /\ form.kind = "return"
Composed == request.route = "dict" /\ pc # "create_formula"

\* a request of tokens: an outcome that is no predictor, at least one
\* predictor, and interaction strings that use one delimiter each
WellFormedRequest ==
    /\ request.route = "dict"
    /\ AsList(request.x) # <<>>
    /\ request.y \notin Range(AsList(request.x))
    /\ request.ixs.type \in {"NoneType", "str", "list"}
    /\ request.ixs.type # "NoneType" =>
          /\ AsList(request.ixs) # <<>>
          /\ \A k \in DOMAIN AsList(request.ixs) : ~IsMixedTerm(AsList(request.ixs)[k])

RequestIxVars ==
    IF request.ixs.type = "NoneType" THEN {}
    ELSE UNION {IxVars(AsList(request.ixs)[k]) : k \in DOMAIN AsList(request.ixs)}

(* -------------------------------- C1 ----------------------------------- *)
\* C1: parse_formula raises ValueError, and returns nothing, for every formula
\* string whose number of "~" is not exactly one.
C1_SeparatorCountError ==
    (Parsed /\ TildeCount(form.val) # 1) =>
        (mod = Raise("ValueError") /\ warnings = <<>>)

\* the formula "y ~ a ~ b", with two separators, has been rejected
C1_Witness ==
    /\ Parsed /\ TildeCount(form.val) >= 2 /\ Len(form.val) > MaxRawLen
    /\ mod = Raise("ValueError")

(* -------------------------------- C2 ----------------------------------- *)
\* C2: a formula with exactly one "~" in which some "+"-separated term of the
\* right-hand side contains both ":" and "*" makes parse_formula raise
\* ValueError, whatever the other terms are.
C2_MixedDelimiterError ==
    (Parsed /\ TildeCount(form.val) = 1
       /\ \E k \in DOMAIN RhsTerms(form.val) : IsMixedTerm(RhsTerms(form.val)[k])) =>
        (mod = Raise("ValueError") /\ warnings = <<>>)

\* a mixed term next to plain predictors and a well-formed "*" term
C2_Witness ==
    /\ Parsed /\ request.route = "dict"
    /\ request.x = PyList(<< <<"a">>, <<"b">> >>)
    /\ request.ixs = PyList(<< <<"a", "*", "b", "*", "c">>, <<"a", ":", "b", "*", "c">> >>)
    /\ mod = Raise("ValueError")

(* -------------------------------- C3 ----------------------------------- *)
\* C3: for an outcome token, a sequence of unique predictor tokens (possibly
\* empty) and no interactions, parse_formula(create_formula(...)) returns that
\* outcome, that predictor sequence and interactions None.
C3_RoundTrip ==
    (pc = "done" /\ request.route = "dict" /\ request.ixs = PyNone
       /\ request.x.type = "list" /\ NoDuplicates(request.x.val)) =>
        /\ mod.kind = "return"
        /\ mod.val.y = request.y
        /\ mod.val.x = request.x.val
        /\ mod.val.ixs = PyNone

(* -------------------------------- C4 ----------------------------------- *)
\* C4: the predictors parse_formula returns hold each plain predictor token
\* once, in order of first appearance.
C4_PredictorsDeduplicated ==
    (pc = "done" /\ WellFormedRequest /\ request.ixs = PyNone) =>
        /\ mod.kind = "return"
        /\ mod.val.x = FirstOccurrences(AsList(request.x))

(* -------------------------------- C5 ----------------------------------- *)
\* C5: "y ~ a + b + a:b" and "y ~ a + b + b:a" are both parsed, and both to the
\* one interaction term {a, b}.
C5_ColonOrderIrrelevant ==
    (pc = "done" /\ request.route = "dict"
       /\ request.x = PyList(<< <<"a">>, <<"b">> >>)
       /\ request.ixs \in {PyList(<< <<"a", ":", "b">> >>), PyList(<< <<"b", ":", "a">> >>)}) =>
        /\ mod.kind = "return"
        /\ mod.val.ixs = PyList({{<<"a">>, <<"b">>}})

(* -------------------------------- C6 ----------------------------------- *)
\* C6: parse_formula expands a "*" term over k distinct variables into the
\* k-choose-2 unordered pairs of them and into no larger term; "y ~ a + b + c +
\* a*b*c" gives {a,b}, {b,c}, {a,c}, predictors [a, b, c] and no warning.
C6_ShorthandExpansion ==
    /\ (Parsed /\ mod.kind = "return") =>
        LET terms == RhsTerms(form.val)
            stars == {k \in DOMAIN terms : Contains(terms[k], "*")}
            colons == {k \in DOMAIN terms : Contains(terms[k], ":")}
            Pieces(k) == StripAll(split(terms[k], "*"))
            Distinct(k) == NoDuplicates(Pieces(k))
        IN stars # {} =>
            /\ mod.val.ixs.type = "list"
            /\ \A k \in stars :
                 Distinct(k) => TwoSubsets(Range(Pieces(k))) \subseteq mod.val.ixs.val
            /\ (colons = {} /\ \A k \in stars : Distinct(k)) =>
                 /\ mod.val.ixs.val = UNION {TwoSubsets(Range(Pieces(k))) : k \in stars}
                 /\ \A t \in mod.val.ixs.val : Cardinality(t) = 2
            /\ \A k \in stars : (stars = {k} /\ colons = {} /\ Distinct(k)) =>
                 2 * Cardinality(mod.val.ixs.val) = Len(Pieces(k)) * (Len(Pieces(k)) - 1)
    /\ (pc = "done" /\ request.route = "dict" /\ request.y = <<"y">>
          /\ request.x = PyList(<< <<"a">>, <<"b">>, <<"c">> >>)
          /\ request.ixs \in {PyStr(<<"a", "*", "b", "*", "c">>),
                              PyList(<< <<"a", "*", "b", "*", "c">> >>)}) =>
        /\ mod = Return([y |-> <<"y">>,
                         x |-> << <<"a">>, <<"b">>, <<"c">> >>,
                         ixs |-> PyList({{<<"a">>, <<"b">>}, {<<"b">>, <<"c">>},
                                         {<<"a">>, <<"c">>}})])
        /\ warnings = <<>>

\* "y ~ a + b + c + a*b*c" has been parsed
C6_Witness ==
    /\ pc = "done"
    /\ form = Return(<<"y", " ", "~", " ", "a", " ", "+", " ", "b", " ", "+", " ", "c",
                       " ", "+", " ", "a", "*", "b", "*", "c">>)
    /\ mod.kind = "return"
    /\ Cardinality(mod.val.ixs.val) = 3

(* -------------------------------- C7 ----------------------------------- *)
\* C7: a well-formed formula whose interaction terms name variables that are no
\* plain predictors is parsed without failure: every interaction variable is in
\* the returned predictors, and one warning names exactly the added variables.
C7_ImpliedPredictorsAdded ==
    (pc = "done" /\ WellFormedRequest
       /\ RequestIxVars \ Range(AsList(request.x)) # {}) =>
        /\ mod.kind = "return"
        /\ \A t \in mod.val.ixs.val : t \subseteq Range(mod.val.x)
        /\ Len(warnings) = 1
        /\ Range(warnings[1]) = RequestIxVars \ Range(AsList(request.x))

(* -------------------------------- C8 ----------------------------------- *)
\* the elements l[1], l[2], ... appended to acc, each after " + "
RECURSIVE PlusAppended(_, _)
PlusAppended(acc, l) ==
    IF l = <<>> THEN acc
    ELSE PlusAppended(acc \o <<" ", "+", " ">> \o Head(l), Tail(l))

PlusJoined(l) == IF l = <<>> THEN <<>> ELSE PlusAppended(Head(l), Tail(l))

Elements(v) == IF v.type = "str" THEN <<v.val>> ELSE v.val

\* C8: create_formula returns "<outcome> ~ " followed by the predictors joined
\* with " + " in input order and, when interactions is given, by " + " and the
\* interaction strings joined with " + " in input order, each verbatim.
C8_ComposedText ==
    (Composed /\ form.kind = "return") =>
        /\ form.val = request.y \o <<" ", "~", " ">> \o PlusJoined(Elements(request.x))
                 \o (IF request.ixs.type = "NoneType" THEN <<>>
                     ELSE <<" ", "+", " ">> \o PlusJoined(Elements(request.ixs)))
        /\ (request.y = <<"y">> /\ request.x = PyList(<< <<"a">>, <<"b">> >>)) =>
             /\ request.ixs = PyNone =>
                  form.val = <<"y", " ", "~", " ", "a", " ", "+", " ", "b">>
             /\ request.ixs = PyList(<< <<"a", ":", "b">> >>) =>
                  form.val = <<"y", " ", "~", " ", "a", " ", "+", " ", "b",
                               " ", "+", " ", "a", ":", "b">>

\* a single predictor string and a single interaction string were composed
C8_Witness ==
    /\ Composed /\ request.x.type = "str" /\ request.ixs.type = "str"
    /\ form.kind = "return"
    /\ Len(form.val) = 11

(* -------------------------------- C9 ----------------------------------- *)
\* C9 as stated: create_formula raises TypeError exactly when interactions is
\* neither None, a string, nor a sequence (list or tuple) of strings.
C9_TypeErrorIffNoSequence ==
    Composed =>
        (form = Raise("TypeError")
           <=> request.ixs.type \notin {"NoneType", "str", "list", "tuple"})

\* C9 amended: create_formula raises TypeError exactly when interactions is
\* neither None, a str, nor a list; a tuple of strings is rejected as well.
C9_TypeErrorIffNoListOrStr ==
    Composed =>
        /\ form = Raise("TypeError")
             <=> request.ixs.type \notin {"NoneType", "str", "list"}
        /\ form.kind \in {"return", "raise"}

\* a tuple of interaction strings has been rejected
C9_Witness ==
    /\ Composed /\ request.ixs.type = "tuple" /\ request.ixs.val # <<>>
    /\ form = Raise("TypeError")

(* -------------------------------- C10 ---------------------------------- *)
\* C10: every specification parse_formula returns has a non-empty outcome that
\* is none of its predictors.
C10_OutcomeNoPredictor ==
    (Parsed /\ mod.kind = "return") =>
        /\ mod.val.y # <<>>
        /\ mod.val.y \notin Range(mod.val.x)

(* -------------------------------- C11 ---------------------------------- *)
\* C11: every interaction term of a specification parse_formula returns is a
\* set of at least 2 distinct variable tokens, also when a term of the formula
\* repeats a variable ("a*a", or "a:a" next to another interaction term).
C11_TermsHaveTwoVariables ==
    (Parsed /\ mod.kind = "return" /\ mod.val.ixs.type = "list"
       /\ \A t \in mod.val.ixs.val : <<>> \notin t) =>
        \A t \in mod.val.ixs.val : Cardinality(t) >= 2

(* -------------------------------- C12 ---------------------------------- *)
\* C12: create_formula_sem raises NotImplementedError for every input and
\* never returns a formula string.
C12_SemNotImplemented ==
    (request.route = "sem" /\ pc = "done") =>
        (form = Raise("NotImplementedError") /\ mod = NotCalled)

\* the composer has been called with a complete mapping and has raised
C12_Witness ==
    /\ request.route = "sem" /\ pc = "done"
    /\ request.model.type = "dict" /\ "x" \in DOMAIN request.model.val
    /\ form.kind = "raise"

(* -------------------------------- C13 ---------------------------------- *)
\* the plain terms of formula f, stripped, in order of appearance
PlainOf(f) ==
    StripAll(SelectSeq(RhsTerms(f), LAMBDA t : ~Contains(t, ":") /\ ~Contains(t, "*")))

\* the variables of the interaction terms, in the order a left-to-right scan
\* of the terms meets them
RECURSIVE ScanOf(_)
ScanOf(terms) ==
    IF terms = <<>> THEN <<>>
    ELSE (IF Contains(Head(terms), ":") \/ Contains(Head(terms), "*")
          THEN StripAll(split(Head(terms), Delimiter(Head(terms))))
          ELSE <<>>) \o ScanOf(Tail(terms))

AddedPreds(f) == SubSeq(mod.val.x, Len(PlainOf(f)) + 1, Len(mod.val.x))

\* C13 as stated: the returned predictors are the plain predictors followed
\* by the missing interaction variables in the order of their first
\* appearance in the interaction terms of the formula ("y ~ a + d*c": d, c).
C13_AddedInScanOrder ==
    (Parsed /\ mod.kind = "return" /\ warnings # <<>>
       /\ <<>> \notin Range(mod.val.x)) =>
        mod.val.x = PlainOf(form.val) \o FirstOccurrences(
            SelectSeq(ScanOf(RhsTerms(form.val)),
                      LAMBDA v : v \notin Range(PlainOf(form.val))))

\* C13 amended: the returned predictors are the plain predictors followed by
\* the missing interaction variables in ascending str order, each once
\* ("y ~ a + d*c": c, d).
C13_AddedInSortedOrder ==
    (Parsed /\ mod.kind = "return" /\ mod.val.ixs.type = "list") =>
        LET plain == PlainOf(form.val)
            added == AddedPreds(form.val)
        IN /\ Len(mod.val.x) >= Len(plain)
           /\ SubSeq(mod.val.x, 1, Len(plain)) = plain
           /\ Range(added) = Range(ScanOf(RhsTerms(form.val))) \ Range(plain)
           /\ \A i \in DOMAIN added : \A j \in DOMAIN added :
                 i < j => StrLess(added[i], added[j])
           /\ warnings = IF added = <<>> THEN <<>> ELSE <<added>>

\* "y ~ a + d*c" has been parsed: c and d were added, in that order
C13_Witness ==
    /\ pc = "done"
    /\ form = Return(<<"y", " ", "~", " ", "a", " ", "+", " ", "d", "*", "c">>)
    /\ mod.kind = "return"
    /\ mod.val.x = << <<"a">>, <<"c">>, <<"d">> >>

(* -------------------------------- C14 ---------------------------------- *)
\* the assignment of value v fails in the type check, the composer or the parser
AssignmentFails(v) ==
    \/ v.type \notin {"dict", "str"}
    \/ /\ v.type = "dict" /\ {"y", "x"} \subseteq DOMAIN v.val
       /\ LET c == create_formula(v.val.y, v.val.x,
                                  IF "ixs" \in DOMAIN v.val THEN v.val.ixs ELSE PyNone)
          IN c.kind = "raise" \/ parse_formula(PyStr(c.val)).ret.kind = "raise"
    \/ v.type = "str" /\ parse_formula(v).ret.kind = "raise"

\* the formula an assignment of v uses: v itself, or composed from the mapping
FormulaUsed(v) ==
    IF v.type = "str" THEN v.val
    ELSE create_formula(v.val.y, v.val.x,
                        IF "ixs" \in DOMAIN v.val THEN v.val.ixs ELSE PyNone).val

\* C14: over any sequence of assignments to Regression.model, directly or by
\* run(formula=...), a successful assignment stores the parser's outcome,
\* predictors and interactions for the formula used together with that
\* formula, and an assignment that fails in the type check, the composer or the
\* parser leaves the stored model unchanged.
C14_ModelIsLastSuccess ==
    [][LET v == request'.value
       IN IF request'.route = "run" /\ v.type = "NoneType" THEN _model' = _model
          ELSE IF AssignmentFails(v) THEN _model' = _model /\ raised' # "none"
          ELSE IF raised' # "none" THEN _model' = _model
          ELSE LET parsed == parse_formula(PyStr(FormulaUsed(v))).ret.val
               IN _model' = [kind |-> "model", y |-> parsed.y, x |-> parsed.x,
                            ixs |-> parsed.ixs, formula |-> FormulaUsed(v)]]_vars

\* a model with interactions is stored and a later run(formula=...) with a
\* malformed formula has failed
C14_Witness ==
    /\ request.route = "run" /\ raised = "ValueError"
    /\ _model.kind = "model" /\ _model.ixs.type = "list"
    /\ request.value.type = "str" /\ _model.formula # request.value.val

====
